---- MODULE Spec2Model ----
(***************************************************************************)
(* Model of scripts/compare_responses.py: the normalizer                   *)
(* (try_parse_json, try_parse_xml, normalize_to_object), the structural    *)
(* differ (compare_dicts) and the command-line run (__main__,              *)
(* compare_files).                                                         *)
(*                                                                         *)
(* Python values are records of one shape, so that any two of them can be  *)
(* compared:  t  the Python type ("null" is None, "bool", "int", "str",    *)
(* "list", "dict"),  n  the number of an int or bool (True is 1),  s  the  *)
(* characters of a str,  ks  the keys of a dict in insertion order,  vs    *)
(* the values of a dict (by position of the key) or the items of a list.   *)
(* A str is a sequence of one-character strings.                           *)
(***************************************************************************)
EXTENDS Integers, Sequences, FiniteSets, TLC

VARIABLES
    pc,               \* position of the run
    argc,             \* len(sys.argv)
    old_exists,       \* old_path.exists()
    new_exists,       \* new_path.exists()
    file_old,         \* content of the old file
    file_new,         \* content of the new file
    raw_old,          \* compare_files: raw_old
    raw_new,          \* compare_files: raw_new
    obj_old, fmt_old, \* compare_files: normalize_to_object(raw_old)
    obj_new, fmt_new, \* compare_files: normalize_to_object(raw_new)
    structured_diff,  \* compare_files: structured_diff
    pretty_old,       \* compare_files: pretty_old
    pretty_new,       \* compare_files: pretty_new
    reads,            \* the files read so far
    dir_made,         \* diff_output exists
    reports,          \* the report files written so far, by name
    exit_code,        \* the exit code of the process, -1 while it runs
    old, new,         \* the arguments of a call compare_dicts(old, new)
    changes           \* its result

vars == <<pc, argc, old_exists, new_exists, file_old, file_new, raw_old, raw_new,
          obj_old, fmt_old, obj_new, fmt_new, structured_diff, pretty_old,
          pretty_new, reads, dir_made, reports, exit_code, old, new, changes>>

---------------------------------------------------------------------------
(* Bounds of the inputs *)

MaxInt == 3      \* the JSON integers are 1..MaxInt
MaxLen == 3      \* the longest list
MaxKeys == 2     \* the largest number of keys of a dict
MaxArgc == 4     \* the largest len(sys.argv)

---------------------------------------------------------------------------
(* Python values *)

None == [t |-> "null", n |-> 0, s |-> <<>>, ks |-> <<>>, vs |-> <<>>]
PyBool(b) == [t |-> "bool", n |-> IF b THEN 1 ELSE 0, s |-> <<>>, ks |-> <<>>, vs |-> <<>>]
PyInt(i) == [t |-> "int", n |-> i, s |-> <<>>, ks |-> <<>>, vs |-> <<>>]
PyStr(str) == [t |-> "str", n |-> 0, s |-> str, ks |-> <<>>, vs |-> <<>>]
PyList(items) == [t |-> "list", n |-> 0, s |-> <<>>, ks |-> <<>>, vs |-> items]
PyDict(keys, values) == [t |-> "dict", n |-> 0, s |-> <<>>, ks |-> keys, vs |-> values]

\* the marker of a key a change record does not have
Absent == [t |-> "absent", n |-> 0, s |-> <<>>, ks |-> <<>>, vs |-> <<>>]

IsDict(x) == x.t = "dict"
IsList(x) == x.t = "list"
IsNumber(x) == x.t \in {"int", "bool"}

\* k in d
HasKey(d, k) == \E i \in 1..Len(d.ks) : d.ks[i] = k

\* d[k]
GetItem(d, k) == d.vs[CHOOSE i \in 1..Len(d.ks) : d.ks[i] = k]

\* a == b of Python: bool is an int (True == 1), a dict equals a dict of the
\* same keys and equal values in any order, a list equals a list of the same
\* length and equal items, and values of different kinds are unequal.
RECURSIVE PyEq(_, _)
PyEq(a, b) ==
    IF IsDict(a) /\ IsDict(b)
    THEN /\ Len(a.ks) = Len(b.ks)
         /\ \A i \in 1..Len(a.ks) :
                HasKey(b, a.ks[i]) /\ PyEq(a.vs[i], GetItem(b, a.ks[i]))
    ELSE IF IsList(a) /\ IsList(b)
    THEN /\ Len(a.vs) = Len(b.vs)
         /\ \A i \in 1..Len(a.vs) : PyEq(a.vs[i], b.vs[i])
    ELSE IF IsNumber(a) /\ IsNumber(b) THEN a.n = b.n
    ELSE IF a.t = "str" /\ b.t = "str" THEN a.s = b.s
    ELSE a.t = "null" /\ b.t = "null"

\* old != new
PyNe(a, b) == ~PyEq(a, b)

---------------------------------------------------------------------------
(* Paths *)

Digit(d) == <<"0", "1", "2", "3", "4", "5", "6", "7", "8", "9">>[d + 1]

\* str(i) of an integer i >= 0
RECURSIVE IntToStr(_)
IntToStr(i) == IF i < 10 THEN <<Digit(i)>> ELSE IntToStr(i \div 10) \o <<Digit(i % 10)>>

\* f"[{i}]"
IndexSub(i) == <<"[">> \o IntToStr(i) \o <<"]">>

\* full_path(sub) inside compare_dicts(old, new, path); an empty path is falsy
full_path(path, sub) == IF path # <<>> THEN path \o <<".">> \o sub ELSE sub

\* path or "/"
PathOrRoot(path) == IF path # <<>> THEN path ELSE <<"/">>

---------------------------------------------------------------------------
(* Change records *)

Removed(p, o) == [type |-> "removed", path |-> p, old |-> o, new |-> Absent]
Added(p, v) == [type |-> "added", path |-> p, old |-> Absent, new |-> v]
Modified(p, o, v) == [type |-> "modified", path |-> p, old |-> o, new |-> v]

---------------------------------------------------------------------------
(* compare_dicts *)

RECURSIVE compare_dicts(_, _, _)
RECURSIVE OldKeysLoop(_, _, _, _)
RECURSIVE NewKeysLoop(_, _, _, _)
RECURSIVE PrefixLoop(_, _, _, _)
RECURSIVE SurplusLoop(_, _, _, _, _)

\* for k in old: ... from the i-th key of old on
OldKeysLoop(o, v, path, i) ==
    IF i > Len(o.ks) THEN <<>>
    ELSE LET k == o.ks[i] IN
         (IF ~HasKey(v, k)
          THEN <<Removed(full_path(path, k), o.vs[i])>>
          ELSE compare_dicts(o.vs[i], GetItem(v, k), full_path(path, k)))
         \o OldKeysLoop(o, v, path, i + 1)

\* for k in new: ... from the i-th key of new on
NewKeysLoop(o, v, path, i) ==
    IF i > Len(v.ks) THEN <<>>
    ELSE LET k == v.ks[i] IN
         (IF ~HasKey(o, k) THEN <<Added(full_path(path, k), v.vs[i])>> ELSE <<>>)
         \o NewKeysLoop(o, v, path, i + 1)

\* min(len(old), len(new))
Min(a, b) == IF a < b THEN a ELSE b

\* for i in range(minlen): ... from index i on (i counts from 0 as in the code)
PrefixLoop(o, v, path, i) ==
    IF i >= Min(Len(o.vs), Len(v.vs)) THEN <<>>
    ELSE compare_dicts(o.vs[i + 1], v.vs[i + 1], full_path(path, IndexSub(i)))
         \o PrefixLoop(o, v, path, i + 1)

\* for i in range(i, len(longer)): one record of the given type per index
SurplusLoop(longer, type, path, i, stop) ==
    IF i >= stop THEN <<>>
    ELSE <<IF type = "removed"
           THEN Removed(full_path(path, IndexSub(i)), longer.vs[i + 1])
           ELSE Added(full_path(path, IndexSub(i)), longer.vs[i + 1])>>
         \o SurplusLoop(longer, type, path, i + 1, stop)

\* ListSurplus with the surplus loops started one index late
ListSurplusOffByOne(o, v, path) ==
    LET minlen == Min(Len(o.vs), Len(v.vs)) IN
    IF Len(o.vs) > Len(v.vs) THEN SurplusLoop(o, "removed", path, minlen + 1, Len(o.vs))
    ELSE IF Len(v.vs) > Len(o.vs) THEN SurplusLoop(v, "added", path, minlen + 1, Len(v.vs))
    ELSE <<>>

\* the two branches after the element-wise loop of the list case
ListSurplus(o, v, path) ==
    LET minlen == Min(Len(o.vs), Len(v.vs)) IN
    IF Len(o.vs) > Len(v.vs) THEN SurplusLoop(o, "removed", path, minlen, Len(o.vs))
    ELSE IF Len(v.vs) > Len(o.vs) THEN SurplusLoop(v, "added", path, minlen, Len(v.vs))
    ELSE <<>>

\* LeafCase without its test: a record for every pair of leaves
LeafCaseAlways(o, v, path) == <<Modified(PathOrRoot(path), o, v)>>

\* LeafCase comparing the types of the two values only
LeafCaseTypeOnly(o, v, path) ==
    IF o.t # v.t THEN <<Modified(PathOrRoot(path), o, v)>> ELSE <<>>

\* the last branch: neither two dicts nor two lists
LeafCase(o, v, path) ==
    IF PyNe(o, v) THEN <<Modified(PathOrRoot(path), o, v)>> ELSE <<>>

compare_dicts(o, v, path) ==
    IF IsDict(o) /\ IsDict(v)
    THEN OldKeysLoop(o, v, path, 1) \o NewKeysLoop(o, v, path, 1)
    ELSE IF IsList(o) /\ IsList(v)
    THEN PrefixLoop(o, v, path, 0) \o ListSurplus(o, v, path)
    ELSE LeafCase(o, v, path)

---------------------------------------------------------------------------
(* The documents compare_dicts is called with *)

\* the sequences over S of length at most n
SeqsUpTo(S, n) == UNION {[1..k -> S] : k \in 0..n}

\* the key sequences of a dict: no key twice, insertion order kept
KeySeqs(K, n) ==
    {ks \in SeqsUpTo(K, n) : \A i, j \in 1..Len(ks) : i # j => ks[i] # ks[j]}

DictsOver(K, V, n) ==
    UNION {{PyDict(ks, values) : values \in [1..Len(ks) -> V]} : ks \in KeySeqs(K, n)}

ListsOver(V, n) == {PyList(items) : items \in SeqsUpTo(V, n)}

Ints == {PyInt(i) : i \in 1..MaxInt}

\* the JSON scalars: null, true, the integers and the string "5"
Scalars == {None, PyBool(TRUE), PyStr(<<"5">>)} \cup Ints

\* the keys of the outer dicts: a plain one, one with a dot, the empty one
\* and one that looks like an index
Keys == {<<"a">>, <<"a", ".", "b">>, <<>>, <<"[", "0", "]">>}

\* the values of the outer dicts
DictInner == {PyInt(1), PyDict(<<<<"b">>>>, <<PyInt(1)>>), PyDict(<<<<"b">>>>, <<PyInt(2)>>)}

\* the items of the outer lists
ListInner == {PyInt(1), PyInt(2), PyList(<<PyInt(1)>>), PyDict(<<<<"a">>>>, <<PyInt(2)>>)}

\* scalars and lists of integers
FlatDocs == Scalars \cup ListsOver(Ints, MaxLen)

\* dicts of scalars and dicts
DictDocs == DictsOver(Keys, DictInner, MaxKeys)

\* lists of scalars, lists and dicts
ListDocs == ListsOver(ListInner, MaxLen)

\* dicts of one key whose value is a list of integers
DictOfListDocs == DictsOver({<<"a">>}, ListsOver(Ints, MaxLen), 1)

\* one document of every type, to compare values of different types
MixedDocs == Scalars \cup {PyDict(<<>>, <<>>), PyList(<<>>), PyList(<<PyInt(1)>>),
                           PyDict(<<<<"a">>>>, <<PyInt(1)>>)}

Pairs == (FlatDocs \X FlatDocs) \cup (DictDocs \X DictDocs) \cup (ListDocs \X ListDocs)
         \cup (DictOfListDocs \X DictOfListDocs) \cup (MixedDocs \X MixedDocs)

---------------------------------------------------------------------------
(* Texts and the normalizer *)

\* A text is what the two parsers make of it: kind "json" is a text json.loads
\* accepts, with the value it returns; kind "xml" is a text xmltodict.parse
\* accepts, with the dict it returns; kind "other" is a text both reject.  No
\* text is accepted by both: an XML document starts with "<", which no JSON
\* text does.
Text(kind, val) == [kind |-> kind, val |-> val]

\* raw_old, raw_new before the files are read
NoText == Text("unread", None)

\* json.loads(text): ok is FALSE when it raises
json_loads(text) ==
    IF text.kind = "json" THEN [ok |-> TRUE, val |-> text.val]
    ELSE [ok |-> FALSE, val |-> None]

\* xmltodict.parse(text): ok is FALSE when it raises
xmltodict_parse(text) ==
    IF text.kind = "xml" THEN [ok |-> TRUE, val |-> text.val]
    ELSE [ok |-> FALSE, val |-> None]

try_parse_json(text) ==
    LET r == json_loads(text) IN IF r.ok THEN r.val ELSE None

try_parse_xml(text) ==
    LET r == xmltodict_parse(text) IN IF r.ok THEN r.val ELSE None

\* the pair (object, format)
normalize_to_object(text) ==
    LET json_obj == try_parse_json(text)
        xml_obj == try_parse_xml(text)
    IN  IF json_obj # None THEN <<json_obj, "json">>
        ELSE IF xml_obj # None THEN <<xml_obj, "xml">>
        ELSE <<None, "text">>

\* json.dumps(obj, indent=2, sort_keys=True) or str(obj), as the value printed
pretty_text_from_obj(obj, fmt) ==
    IF fmt \in {"json", "xml"} THEN Text("dumps", obj) ELSE Text("str", obj)

\* the condition under which compare_files computes the structured diff
BothParsedSameFormat(o, fo, v, fv) == o # None /\ v # None /\ fo = fv

---------------------------------------------------------------------------
(* The files and the reports *)

\* the values of the JSON files
JsonFileDocs == {None, PyInt(1), PyList(<<PyInt(1)>>),
                 PyDict(<<<<"a">>>>, <<PyInt(1)>>), PyDict(<<<<"a">>>>, <<PyInt(2)>>)}

\* the values of the XML files: <r>5</r> and <r/>
XmlFileDocs == {PyDict(<<<<"r">>>>, <<PyStr(<<"5">>)>>), PyDict(<<<<"r">>>>, <<None>>)}

FileTexts == {Text("json", d) : d \in JsonFileDocs}
             \cup {Text("xml", d) : d \in XmlFileDocs}
             \cup {Text("other", None)}

\* structured_diff: None, or a list of change records
NoDiff == [some |-> FALSE, list |-> <<>>]
SomeDiff(list) == [some |-> TRUE, list |-> list]

\* a report file: not written, the unified or HTML diff of two texts, the
\* change list, or the object {"info": ...}
NotWritten == [kind |-> "none", body |-> <<>>]
TextReport(a, b) == [kind |-> "udiff", body |-> <<a, b>>]
HtmlReport(a, b) == [kind |-> "html", body |-> <<a, b>>]
ChangeListReport(list) == [kind |-> "changes", body |-> list]
Placeholder == [kind |-> "info", body |-> <<>>]

---------------------------------------------------------------------------
(* The run of the script *)

Init ==
    /\ pc = "main"
    /\ argc \in 1..MaxArgc
    /\ old_exists \in BOOLEAN /\ new_exists \in BOOLEAN
    /\ file_old \in FileTexts /\ file_new \in FileTexts
    /\ raw_old = NoText /\ raw_new = NoText
    /\ obj_old = None /\ fmt_old = "text" /\ obj_new = None /\ fmt_new = "text"
    /\ structured_diff = NoDiff
    /\ pretty_old = NoText /\ pretty_new = NoText
    /\ reads = {} /\ dir_made = FALSE
    /\ reports = [txt |-> NotWritten, html |-> NotWritten, json |-> NotWritten]
    /\ exit_code = -1
    /\ old = None /\ new = None /\ changes = <<>>

\* if len(sys.argv) != 3: usage, sys.exit(1)
CheckArgc ==
    /\ pc = "main"
    /\ IF argc # 3
       THEN pc' = "exited" /\ exit_code' = 1
       ELSE pc' = "check_files" /\ UNCHANGED exit_code
    /\ UNCHANGED <<argc, old_exists, new_exists, file_old, file_new, raw_old, raw_new,
                   obj_old, fmt_old, obj_new, fmt_new, structured_diff, pretty_old,
                   pretty_new, reads, dir_made, reports, old, new, changes>>

\* CheckFiles with "and" for "or": the run goes on when one file is missing
CheckFilesAnd ==
    /\ pc = "check_files"
    /\ IF ~old_exists /\ ~new_exists
       THEN pc' = "exited" /\ exit_code' = 1
       ELSE pc' = "read" /\ UNCHANGED exit_code
    /\ UNCHANGED <<argc, old_exists, new_exists, file_old, file_new, raw_old, raw_new,
                   obj_old, fmt_old, obj_new, fmt_new, structured_diff, pretty_old,
                   pretty_new, reads, dir_made, reports, old, new, changes>>

\* if not old_path.exists() or not new_path.exists(): error, sys.exit(1)
CheckFiles ==
    /\ pc = "check_files"
    /\ IF ~old_exists \/ ~new_exists
       THEN pc' = "exited" /\ exit_code' = 1
       ELSE pc' = "read" /\ UNCHANGED exit_code
    /\ UNCHANGED <<argc, old_exists, new_exists, file_old, file_new, raw_old, raw_new,
                   obj_old, fmt_old, obj_new, fmt_new, structured_diff, pretty_old,
                   pretty_new, reads, dir_made, reports, old, new, changes>>

\* raw_old = old_file.read_text(...)
ReadOld ==
    /\ pc = "read"
    /\ raw_old' = file_old
    /\ reads' = reads \cup {"old"}
    /\ pc' = "read_new"
    /\ UNCHANGED <<argc, old_exists, new_exists, file_old, file_new, raw_new,
                   obj_old, fmt_old, obj_new, fmt_new, structured_diff, pretty_old,
                   pretty_new, dir_made, reports, exit_code, old, new, changes>>

\* raw_new = new_file.read_text(...)
ReadNew ==
    /\ pc = "read_new"
    /\ raw_new' = file_new
    /\ reads' = reads \cup {"new"}
    /\ pc' = "normalize"
    /\ UNCHANGED <<argc, old_exists, new_exists, file_old, file_new, raw_old,
                   obj_old, fmt_old, obj_new, fmt_new, structured_diff, pretty_old,
                   pretty_new, dir_made, reports, exit_code, old, new, changes>>

\* obj_old, fmt_old = normalize_to_object(raw_old), and the same for new
Normalize ==
    /\ pc = "normalize"
    /\ obj_old' = normalize_to_object(raw_old)[1]
    /\ fmt_old' = normalize_to_object(raw_old)[2]
    /\ obj_new' = normalize_to_object(raw_new)[1]
    /\ fmt_new' = normalize_to_object(raw_new)[2]
    /\ pc' = "diff"
    /\ UNCHANGED <<argc, old_exists, new_exists, file_old, file_new, raw_old, raw_new,
                   structured_diff, pretty_old, pretty_new, reads, dir_made, reports,
                   exit_code, old, new, changes>>

\* structured_diff, pretty_old and pretty_new
Diff ==
    /\ pc = "diff"
    /\ IF BothParsedSameFormat(obj_old, fmt_old, obj_new, fmt_new)
       THEN /\ pretty_old' = pretty_text_from_obj(obj_old, fmt_old)
            /\ pretty_new' = pretty_text_from_obj(obj_new, fmt_new)
            /\ structured_diff' = SomeDiff(compare_dicts(obj_old, obj_new, <<>>))
            /\ old' = obj_old /\ new' = obj_new
            /\ changes' = compare_dicts(obj_old, obj_new, <<>>)
       ELSE /\ pretty_old' = IF obj_old # None
                             THEN pretty_text_from_obj(obj_old, fmt_old) ELSE raw_old
            /\ pretty_new' = IF obj_new # None
                             THEN pretty_text_from_obj(obj_new, fmt_new) ELSE raw_new
            /\ structured_diff' = NoDiff
            /\ UNCHANGED <<old, new, changes>>
    /\ pc' = "mkdir"
    /\ UNCHANGED <<argc, old_exists, new_exists, file_old, file_new, raw_old, raw_new,
                   obj_old, fmt_old, obj_new, fmt_new, reads, dir_made, reports,
                   exit_code>>

\* output_dir.mkdir(exist_ok=True)
MakeDir ==
    /\ pc = "mkdir"
    /\ dir_made' = TRUE
    /\ pc' = "write_txt"
    /\ UNCHANGED <<argc, old_exists, new_exists, file_old, file_new, raw_old, raw_new,
                   obj_old, fmt_old, obj_new, fmt_new, structured_diff, pretty_old,
                   pretty_new, reads, reports, exit_code, old, new, changes>>

\* diff_report.txt
WriteTxt ==
    /\ pc = "write_txt"
    /\ reports' = [reports EXCEPT !.txt = TextReport(pretty_old, pretty_new)]
    /\ pc' = "write_html"
    /\ UNCHANGED <<argc, old_exists, new_exists, file_old, file_new, raw_old, raw_new,
                   obj_old, fmt_old, obj_new, fmt_new, structured_diff, pretty_old,
                   pretty_new, reads, dir_made, exit_code, old, new, changes>>

\* diff_report.html
WriteHtml ==
    /\ pc = "write_html"
    /\ reports' = [reports EXCEPT !.html = HtmlReport(pretty_old, pretty_new)]
    /\ pc' = "write_json"
    /\ UNCHANGED <<argc, old_exists, new_exists, file_old, file_new, raw_old, raw_new,
                   obj_old, fmt_old, obj_new, fmt_new, structured_diff, pretty_old,
                   pretty_new, reads, dir_made, exit_code, old, new, changes>>

\* diff_report.json
WriteJson ==
    /\ pc = "write_json"
    /\ reports' = [reports EXCEPT !.json =
                      IF structured_diff.some
                      THEN ChangeListReport(structured_diff.list) ELSE Placeholder]
    /\ pc' = "return"
    /\ UNCHANGED <<argc, old_exists, new_exists, file_old, file_new, raw_old, raw_new,
                   obj_old, fmt_old, obj_new, fmt_new, structured_diff, pretty_old,
                   pretty_new, reads, dir_made, exit_code, old, new, changes>>

\* compare_files returns and the script ends
Return ==
    /\ pc = "return"
    /\ pc' = "exited"
    /\ exit_code' = 0
    /\ UNCHANGED <<argc, old_exists, new_exists, file_old, file_new, raw_old, raw_new,
                   obj_old, fmt_old, obj_new, fmt_new, structured_diff, pretty_old,
                   pretty_new, reads, dir_made, reports, old, new, changes>>

Next ==
    \/ CheckArgc
    \/ CheckFiles
    \/ ReadOld
    \/ ReadNew
    \/ Normalize
    \/ Diff
    \/ MakeDir
    \/ WriteTxt
    \/ WriteHtml
    \/ WriteJson
    \/ Return

Spec == Init /\ [][Next]_vars

---------------------------------------------------------------------------
(* One call of compare_dicts *)

DiffInit ==
    /\ \E p \in Pairs : old = p[1] /\ new = p[2]
    /\ changes = <<>>
    /\ pc = "call"
    /\ argc = 3 /\ old_exists = TRUE /\ new_exists = TRUE
    /\ file_old = NoText /\ file_new = NoText /\ raw_old = NoText /\ raw_new = NoText
    /\ obj_old = None /\ fmt_old = "text" /\ obj_new = None /\ fmt_new = "text"
    /\ structured_diff = NoDiff /\ pretty_old = NoText /\ pretty_new = NoText
    /\ reads = {} /\ dir_made = FALSE
    /\ reports = [txt |-> NotWritten, html |-> NotWritten, json |-> NotWritten]
    /\ exit_code = -1

\* structured_diff = compare_dicts(obj_old, obj_new), path defaulting to ""
CallCompare ==
    /\ pc = "call"
    /\ changes' = compare_dicts(old, new, <<>>)
    /\ pc' = "returned"
    /\ UNCHANGED <<argc, old_exists, new_exists, file_old, file_new, raw_old, raw_new,
                   obj_old, fmt_old, obj_new, fmt_new, structured_diff, pretty_old,
                   pretty_new, reads, dir_made, reports, exit_code, old, new>>

DiffNext == CallCompare

DiffSpec == DiffInit /\ [][DiffNext]_vars

---------------------------------------------------------------------------
(* Reading a path back.  A path is read as the data model describes it: "/"  *)
(* is the document itself; any other path is cut at its dots into segments;  *)
(* a segment [i] applied to a list is its item i, and any segment applied to *)
(* a dict is the value of the key of that name.                              *)

Unresolved == [t |-> "unresolved", n |-> 0, s |-> <<>>, ks |-> <<>>, vs |-> <<>>]

RECURSIVE SplitDots(_)
SplitDots(p) ==
    IF \A i \in 1..Len(p) : p[i] # "."
    THEN <<p>>
    ELSE LET i == CHOOSE x \in 1..Len(p) : p[x] = "." /\ \A y \in 1..(x - 1) : p[y] # "."
         IN  <<SubSeq(p, 1, i - 1)>> \o SplitDots(SubSeq(p, i + 1, Len(p)))

IsDigit(c) == \E d \in 0..9 : Digit(d) = c
DigitValue(c) == CHOOSE d \in 0..9 : Digit(d) = c

RECURSIVE StrToInt(_)
StrToInt(str) ==
    IF Len(str) = 1 THEN DigitValue(str[1])
    ELSE 10 * StrToInt(SubSeq(str, 1, Len(str) - 1)) + DigitValue(str[Len(str)])

IsIndexSegment(seg) ==
    /\ Len(seg) >= 3
    /\ seg[1] = "[" /\ seg[Len(seg)] = "]"
    /\ \A i \in 2..(Len(seg) - 1) : IsDigit(seg[i])

SegmentIndex(seg) == StrToInt(SubSeq(seg, 2, Len(seg) - 1))

RECURSIVE Walk(_, _)
Walk(doc, segs) ==
    IF segs = <<>> THEN doc
    ELSE LET seg == Head(segs) IN
         IF IsList(doc) /\ IsIndexSegment(seg)
         THEN IF SegmentIndex(seg) < Len(doc.vs)
              THEN Walk(doc.vs[SegmentIndex(seg) + 1], Tail(segs))
              ELSE Unresolved
         ELSE IF IsDict(doc) /\ HasKey(doc, seg)
         THEN Walk(GetItem(doc, seg), Tail(segs))
         ELSE Unresolved

Resolve(doc, path) == IF path = <<"/">> THEN doc ELSE Walk(doc, SplitDots(path))

ResolvesInBoth(r, o, v) ==
    /\ r.type \in {"removed", "modified"} => Resolve(o, r.path) = r.old
    /\ r.type \in {"added", "modified"} => Resolve(v, r.path) = r.new

\* a key that is not empty and holds no dot
PlainKey(k) == k # <<>> /\ \A i \in 1..Len(k) : k[i] # "."

\* sub is a run of consecutive elements of seq
ContainsRun(seq, sub) ==
    \E off \in 0..(Len(seq) - Len(sub)) : SubSeq(seq, off + 1, off + Len(sub)) = sub

\* equality of JSON documents: the same type and the same value, the keys of
\* a mapping in any order
RECURSIVE JsonEq(_, _)
JsonEq(a, b) ==
    IF IsDict(a) /\ IsDict(b)
    THEN /\ Len(a.ks) = Len(b.ks)
         /\ \A i \in 1..Len(a.ks) :
                HasKey(b, a.ks[i]) /\ JsonEq(a.vs[i], GetItem(b, a.ks[i]))
    ELSE IF IsList(a) /\ IsList(b)
    THEN /\ Len(a.vs) = Len(b.vs)
         /\ \A i \in 1..Len(a.vs) : JsonEq(a.vs[i], b.vs[i])
    ELSE a = b

\* The rendering of a segment sequence in the form a.b[2].c: a field name is
\* joined by a dot, an index is attached to what comes before it, and the
\* empty sequence is "/".
FieldSeg(name) == [isidx |-> FALSE, name |-> name, idx |-> 0]
IndexSeg(i) == [isidx |-> TRUE, name |-> <<>>, idx |-> i]

RECURSIVE RenderFrom(_, _)
RenderFrom(segs, i) ==
    IF i > Len(segs) THEN <<>>
    ELSE (IF segs[i].isidx THEN <<"[">> \o IntToStr(segs[i].idx) \o <<"]">>
          ELSE (IF i = 1 THEN <<>> ELSE <<".">>) \o segs[i].name)
         \o RenderFrom(segs, i + 1)

SpecRender(segs) == IF segs = <<>> THEN <<"/">> ELSE RenderFrom(segs, 1)

Returned == pc = "returned"

---------------------------------------------------------------------------
(* The claims about compare_dicts, checked under DiffSpec *)

\* C1: a document compared with itself gives the empty change list.
C1_SelfDiffEmpty == Returned /\ old = new => changes = <<>>

C1_Witness ==
    /\ Returned /\ old = new /\ changes = <<>>
    /\ IsDict(old) /\ Len(old.ks) = 2
    /\ \E i \in 1..2 : IsDict(old.vs[i])

\* C2: the path of every change record, read back in the old document (a
\* removed or modified record) and in the new one (an added or modified
\* record), gives the value the record holds.
C2_PathsResolve ==
    Returned => \A i \in 1..Len(changes) : ResolvesInBoth(changes[i], old, new)

\* C3: no two records of a change list have the same path and the same kind.
C3_NoDuplicateRecords ==
    Returned =>
        \A i, j \in 1..Len(changes) :
            i < j => ~(changes[i].path = changes[j].path /\ changes[i].type = changes[j].type)

\* the records compare_dicts gives for the i-th key of old, a key of new too
KeyRecords(i) ==
    compare_dicts(old.vs[i], GetItem(new, old.ks[i]), full_path(<<>>, old.ks[i]))

SharedUnequal(i) ==
    HasKey(new, old.ks[i]) /\ PyNe(old.vs[i], GetItem(new, old.ks[i]))

UnderIndex(path, i) ==
    LET seg == <<"[">> \o IntToStr(i) \o <<"]">> IN
    /\ Len(path) >= Len(seg)
    /\ SubSeq(path, 1, Len(seg)) = seg
    /\ Len(path) > Len(seg) => path[Len(seg) + 1] = "."

\* C8: two sequences are compared item by item over the shared indexes only,
\* and then one record per surplus index follows, in ascending order, with
\* the whole item: removed when old is longer, added when new is longer.
C8_ListPrefixThenSurplus ==
    Returned /\ IsList(old) /\ IsList(new)
    => LET lo == Len(old.vs)
           ln == Len(new.vs)
           m == IF lo < ln THEN lo ELSE ln
           d == IF lo > ln THEN lo - ln ELSE ln - lo
           h == Len(changes) - d
       IN  /\ h >= 0
           /\ \A j \in 1..d :
                  LET p == <<"[">> \o IntToStr(m + j - 1) \o <<"]">> IN
                  changes[h + j] = IF lo > ln
                                   THEN [type |-> "removed", path |-> p,
                                         old |-> old.vs[m + j], new |-> Absent]
                                   ELSE [type |-> "added", path |-> p,
                                         old |-> Absent, new |-> new.vs[m + j]]
           /\ \A j \in 1..h : \E i \in 0..(m - 1) : UnderIndex(changes[j].path, i)
           /\ SubSeq(changes, 1, h)
                = compare_dicts(PyList(SubSeq(old.vs, 1, m)), PyList(SubSeq(new.vs, 1, m)), <<>>)
           /\ (/\ old = PyList(<<PyInt(1), PyInt(2), PyInt(3)>>)
               /\ new = PyList(<<PyInt(1), PyInt(2)>>))
              => changes = <<[type |-> "removed", path |-> <<"[", "2", "]">>,
                              old |-> PyInt(3), new |-> Absent]>>

C8_Witness ==
    /\ Returned
    /\ old = PyList(<<PyInt(1), PyInt(2), PyInt(3)>>)
    /\ new = PyList(<<PyInt(1), PyInt(2)>>)
    /\ Len(changes) = 1 /\ changes[1].type = "removed"

\* C9: the path of a record is its segments in the form a.b[2].c: "/" at the
\* root, [i] for item i of a root sequence, a[i] for item i of the sequence
\* at key a.
C9_PathForm ==
    Returned =>
        \A r \in 1..Len(changes) :
            /\ (~(IsDict(old) /\ IsDict(new)) /\ ~(IsList(old) /\ IsList(new)))
               => changes[r].path = SpecRender(<<>>)
            /\ (old \in ListsOver(Ints, MaxLen) /\ new \in ListsOver(Ints, MaxLen))
               => \E i \in 0..MaxLen : changes[r].path = SpecRender(<<IndexSeg(i)>>)
            /\ (old \in DictOfListDocs /\ new \in DictOfListDocs)
               => \/ changes[r].path = SpecRender(<<FieldSeg(<<"a">>)>>)
                  \/ \E i \in 0..MaxLen :
                         changes[r].path = SpecRender(<<FieldSeg(<<"a">>), IndexSeg(i)>>)

\* C10: an empty change list means the two documents are equal.
C10_EmptyDiffImpliesEqual == Returned /\ changes = <<>> => JsonEq(old, new)

---------------------------------------------------------------------------
(* The claims about the run, checked under Spec *)

Normalized == pc \in {"diff", "mkdir", "write_txt", "write_html", "write_json", "return"}

NoReport == [txt |-> NotWritten, html |-> NotWritten, json |-> NotWritten]

AllReportsWritten ==
    /\ reports.txt.kind = "udiff"
    /\ reports.html.kind = "html"
    /\ reports.json.kind \in {"changes", "info"}

\* a document is parsed when one of the two parsers accepts its text, and its
\* format is that of the first parser that does
Parsed(text) == json_loads(text).ok \/ xmltodict_parse(text).ok
FormatOf(text) ==
    IF json_loads(text).ok THEN "json"
    ELSE IF xmltodict_parse(text).ok THEN "xml" ELSE "text"
ValueOf(text) ==
    IF json_loads(text).ok THEN json_loads(text).val ELSE xmltodict_parse(text).val

\* C4: a text json.loads accepts is normalized to its value and the format
\* "json"; the formats "xml" and "text" are given only to texts it rejects.
C4_JsonAcceptedIsJson ==
    Normalized =>
        /\ json_loads(raw_old).ok => obj_old = json_loads(raw_old).val /\ fmt_old = "json"
        /\ json_loads(raw_new).ok => obj_new = json_loads(raw_new).val /\ fmt_new = "json"
        /\ fmt_old \in {"xml", "text"} => ~json_loads(raw_old).ok
        /\ fmt_new \in {"xml", "text"} => ~json_loads(raw_new).ok

\* C5: diff_report.json holds the change list exactly when both documents
\* were parsed and have the same format, and the placeholder object in every
\* other case; an old JSON file and a new XML file give the placeholder.
C5_JsonReportContent ==
    pc = "exited" /\ exit_code = 0 =>
        /\ (Parsed(file_old) /\ Parsed(file_new) /\ FormatOf(file_old) = FormatOf(file_new))
           => reports.json
                = ChangeListReport(compare_dicts(ValueOf(file_old), ValueOf(file_new), <<>>))
        /\ ~(Parsed(file_old) /\ Parsed(file_new) /\ FormatOf(file_old) = FormatOf(file_new))
           => reports.json = Placeholder
        /\ (file_old.kind = "json" /\ file_new.kind = "xml") => reports.json = Placeholder

====
